---- MODULE Spec2Model ----
(***************************************************************************)
(* Model of limber's two transfer pipelines:                               *)
(*   - import (src/src/command/import.rs): stdin reader thread -> bounded  *)
(*     channel -> filter_map -> chunks(size) -> for_each(bulk request);    *)
(*   - export (src/src/command/export.rs): one scroll task per worker,     *)
(*     joined by join_all, sharing one Counter (src/src/stats.rs).         *)
(* The two commands are separate runs: ImportSpec and ExportSpec.          *)
(***************************************************************************)
EXTENDS Integers, Sequences, FiniteSets, TLC

(* ------------------------------------------------------------------ *)
(* Bounds of the model.                                               *)
(* ------------------------------------------------------------------ *)
MaxSize == 2
MaxConcurrency == 2
MaxLines == 3
MaxWorkers == 2
MaxHits == 2
MaxDocs == 3
MaxPath == 3

VARIABLES
    \* ---- import run
    size,          \* import.rs:60   batch size
    concurrency,   \* import.rs:66   concurrency factor
    index,         \* import.rs:69   fixed index from the target, an Option
    input,         \* the lines stdin will deliver (import.rs:85-88)
    pos,           \* how many lines the reader thread has taken from stdin
    rdr,           \* reader thread: "next" | "send" | "done" (tx dropped)
    chan,          \* the mpsc channel's queue (import.rs:75)
    items,         \* Chunks' buffer of operations not yet yielded (import.rs:140)
    inflight,      \* batches whose bulk request awaits its response
    sent,          \* every request sent to the cluster, in order (import.rs:145-148)
    responses,     \* the outcome of every answered bulk request, in order
    written,       \* operations the cluster has written
    iresult,       \* the import future: "running" | "ok" | "err"
    \* ---- both commands
    counter,       \* stats.rs:11    Counter.inner
    stderr,        \* lines printed with eprintln!
    \* ---- export run
    workers,       \* export.rs:70   concurrency (number of workers)
    esize,         \* export.rs:189  page size
    filter,        \* export.rs:192  the --query text
    tasks,         \* export.rs:88   the queries of the tasks built so far
    ws,            \* per worker: "open" | "done" | "failed" | "panicked"
    reqs,          \* per worker: the requests it has issued, in order
    stdout,        \* per worker: the records it has printed, in order
    rawFields,     \* the field names seen on the raw hits received so far
    pages,         \* per worker: the hit count of every page received, in order
    eresult,       \* the export run: "building" | "running" | "ok" | "err" | "panic"
    \* ---- target resolution
    target,        \* import.rs:63 / export.rs:67  the target argument
    cluster        \* import.rs:69 / export.rs:73  what parse_cluster returned

ivars == <<size, concurrency, index, input, pos, rdr, chan, items, inflight,
           sent, responses, written, iresult>>
evars == <<workers, esize, filter, tasks, ws, reqs, stdout, rawFields, pages, eresult>>
rvars == <<target, cluster>>
vars == <<ivars, counter, stderr, evars, rvars>>

(* ------------------------------------------------------------------ *)
(* Option and JSON values (serde_json::Value).                        *)
(* ------------------------------------------------------------------ *)
None == [some |-> FALSE]
Some(x) == [some |-> TRUE, v |-> x]

JNull == [t |-> "null"]
JNum(n) == [t |-> "num", n |-> n]
JStr(s) == [t |-> "str", s |-> s]
JArr(a) == [t |-> "arr", a |-> a]
JObj(m) == [t |-> "obj", m |-> m]

\* Value::get(key): Some only on an object that has the key.
Get(val, key) ==
    IF val.t = "obj" /\ key \in DOMAIN val.m THEN Some(val.m[key]) ELSE None

\* Option<&Value>?.as_str(): Some only for a JSON string.
AsStr(opt) ==
    IF opt.some /\ opt.v.t = "str" THEN Some(opt.v.s) ELSE None

\* value[key].take(): the member, or Null when it is absent.
IndexTake(val, key) ==
    IF val.t = "obj" /\ key \in DOMAIN val.m THEN val.m[key] ELSE JNull

\* A text handed to serde_json: either it parses to a value or it does not.
Text(val) == [valid |-> TRUE, val |-> val]
Garbage == [valid |-> FALSE]

\* serde_json::from_slice::<Value>(&line).ok() / from_str
FromSlice(text) == IF text.valid THEN Some(text.val) ELSE None

(* ------------------------------------------------------------------ *)
(* Import: the lines stdin may deliver.                               *)
(* ------------------------------------------------------------------ *)
IdText == <<"1", "2", "3", "4", "5", "6">>

\* The envelope export writes for document i: _id, _index, _type, _source.
Envelope(i) ==
    [f \in {"_id", "_index", "_type", "_source"} |->
        CASE f = "_id" -> JStr(IdText[i])
          [] f = "_index" -> JStr("a")
          [] f = "_type" -> JStr("doc")
          [] f = "_source" -> JObj([k \in {"x"} |-> JNum(i)])]

Without(m, key) == [f \in DOMAIN m \ {key} |-> m[f]]

LineKinds == {"full", "notype", "noid", "noindex", "numid", "scalar", "garbage"}

\* The i-th line of stdin, of the given kind.
MkLine(kind, i) ==
    CASE kind = "full" -> Text(JObj(Envelope(i)))
      [] kind = "notype" -> Text(JObj(Without(Envelope(i), "_type")))
      [] kind = "noid" -> Text(JObj(Without(Envelope(i), "_id")))
      [] kind = "noindex" -> Text(JObj(Without(Envelope(i), "_index")))
      [] kind = "numid" -> Text(JObj([Envelope(i) EXCEPT !["_id"] = JNum(i)]))
      [] kind = "scalar" -> Text(JNum(i))
      [] kind = "garbage" -> Garbage

Inputs ==
    UNION {{[i \in 1..n |-> MkLine(ks[i], i)] : ks \in [1..n -> LineKinds]} : n \in 0..MaxLines}

(* ------------------------------------------------------------------ *)
(* Counter (src/src/stats.rs).                                        *)
(* ------------------------------------------------------------------ *)
\* AtomicUsize::fetch_add(amount): the value stored by the atomic addition ...
FetchAdd(inner, amount) == inner + amount

\* ... and the value it returns, which is the previous one.
FetchAddReturn(inner, amount) == inner

\* Mutant: the value before the addition is returned.
IncrementReturnsPrevious(inner, amount) == FetchAddReturn(inner, amount)

\* Counter::increment: fetch_add's return value + amount.
Increment(inner, amount) == FetchAddReturn(inner, amount) + amount

(* ------------------------------------------------------------------ *)
(* Import: the stages of the worker stream.                           *)
(* ------------------------------------------------------------------ *)
\* Mutant: the identifier is read as a number (as_u64) instead of a string.
TransformNumericId(line, fixed) ==
    LET parsed == FromSlice(line) IN
    IF ~parsed.some THEN None
    ELSE
      LET idx == IF fixed.some THEN Some(fixed.v)
                 ELSE AsStr(Get(parsed.v, "_index"))
          id == Get(parsed.v, "_id")
          ty == AsStr(Get(parsed.v, "_type"))
      IN IF ~idx.some \/ ~id.some \/ id.v.t # "num" \/ ~ty.some THEN None
         ELSE Some([source |-> IndexTake(parsed.v, "_source"),
                    index |-> idx.v, id |-> id.v.n, ty |-> ty.v])

\* The filter_map closure: Some(operation) or None (the line is dropped).
Transform(line, fixed) ==
    LET parsed == FromSlice(line) IN
    IF ~parsed.some THEN None
    ELSE
      LET idx == IF fixed.some THEN Some(fixed.v)
                 ELSE AsStr(Get(parsed.v, "_index"))
          id == AsStr(Get(parsed.v, "_id"))
          ty == AsStr(Get(parsed.v, "_type"))
      IN IF ~idx.some \/ ~id.some \/ ~ty.some THEN None
         ELSE Some([source |-> IndexTake(parsed.v, "_source"),
                    index |-> idx.v, id |-> id.v, ty |-> ty.v])

\* mpsc::channel(size * concurrency): the buffer plus the one slot the
\* single Sender is guaranteed.
ChannelCap == size * concurrency + 1

\* Mutant: a chunk is yielded one item late.
ChunkFullOffByOne(buf) == Len(buf) > size

\* Chunks yields its buffer once it holds `size` items.
ChunkFull(buf) == Len(buf) >= size

\* Mutant: batches are sent from a pool of `concurrency` requests.
ForEachReadyPooled == Len(inflight) < concurrency


\* Mutant: the for_each guard off by one (a pool of concurrency + 1).
ForEachReadyOffByOne == Len(inflight) <= concurrency

\* for_each polls the stream for the next batch only when the future of
\* the previous batch has resolved.
ForEachReady == inflight = <<>>

\* The amount the and_then closure adds to the Counter for a batch.
Processed(batch) == size

\* Mutant: item failures are logged and the batch counts as done.
ResponseResultTolerant(failed) == "ok"

\* The and_then closure's result for a response with the given failed items.
ResponseResult(failed) == IF failed = {} THEN "ok" ELSE "err"

BulkRequest(batch) == [kind |-> "bulk", ops |-> batch]

\* for_each calls the closure on a batch: the bulk request is sent.
Dispatch(batch) ==
    /\ items' = <<>>
    /\ inflight' = Append(inflight, batch)
    /\ sent' = Append(sent, BulkRequest(batch))

ImportInit ==
    /\ size \in 1..MaxSize
    /\ concurrency \in 1..MaxConcurrency
    /\ index \in {None, Some("fixed")}
    /\ input \in Inputs
    /\ pos = 0
    /\ rdr = "next"
    /\ chan = <<>>
    /\ items = <<>>
    /\ inflight = <<>>
    /\ sent = <<>>
    /\ responses = <<>>
    /\ written = <<>>
    /\ stderr = <<>>
    /\ iresult = "running"
    /\ counter = 0
    /\ workers = 0 /\ esize = 0 /\ filter = Garbage /\ tasks = <<>>
    /\ ws = <<>> /\ reqs = <<>> /\ stdout = <<>> /\ rawFields = {} /\ pages = <<>>
    /\ eresult = "idle"
    /\ target = [valid |-> FALSE] /\ cluster = None

\* Mutant: at the end of stdin the thread keeps its Sender alive.
ReaderNextKeepsSender ==
    /\ iresult = "running" /\ rdr = "next"
    /\ IF pos < Len(input)
         THEN pos' = pos + 1 /\ rdr' = "send"
         ELSE pos' = pos /\ rdr' = "idle"
    /\ UNCHANGED <<size, concurrency, index, input, chan, items, inflight,
                   sent, responses, written, iresult, counter, stderr, evars, rvars>>


\* The reader thread's loop_fn: lines.next()
ReaderNext ==
    /\ iresult = "running" /\ rdr = "next"
    /\ IF pos < Len(input)
         THEN pos' = pos + 1 /\ rdr' = "send"
         ELSE pos' = pos /\ rdr' = "done"
    /\ UNCHANGED <<size, concurrency, index, input, chan, items, inflight,
                   sent, responses, written, iresult, counter, stderr, evars, rvars>>

\* The reader thread's tx.send(line): waits while the channel is full.
ReaderSend ==
    /\ iresult = "running" /\ rdr = "send"
    /\ Len(chan) < ChannelCap
    /\ chan' = Append(chan, input[pos])
    /\ rdr' = "next"
    /\ UNCHANGED <<size, concurrency, index, input, pos, items, inflight,
                   sent, responses, written, iresult, counter, stderr, evars, rvars>>

\* rx yields a line: filter_map, then chunks; a full chunk goes to for_each.
WorkerRecv ==
    /\ iresult = "running" /\ ForEachReady
    /\ chan # <<>>
    /\ LET op == Transform(Head(chan), index)
           buf == IF op.some THEN Append(items, op.v) ELSE items
       IN /\ chan' = Tail(chan)
          /\ IF ChunkFull(buf)
               THEN Dispatch(buf)
               ELSE items' = buf /\ UNCHANGED <<inflight, sent>>
    /\ UNCHANGED <<size, concurrency, index, input, pos, rdr,
                   responses, written, iresult, counter, stderr, evars, rvars>>

\* rx yields None (channel empty, Sender dropped): chunks flushes a short
\* last batch, and once nothing is left for_each resolves Ok.
WorkerEnd ==
    /\ iresult = "running" /\ ForEachReady
    /\ chan = <<>> /\ rdr = "done"
    /\ IF items # <<>>
         THEN Dispatch(items) /\ UNCHANGED iresult
         ELSE iresult' = "ok" /\ UNCHANGED <<items, inflight, sent>>
    /\ UNCHANGED <<size, concurrency, index, input, pos, rdr, chan,
                   responses, written, counter, stderr, evars, rvars>>

\* Mutant: a failed bulk request is passed over and the stream goes on.
BulkFailContinues ==
    /\ iresult = "running" /\ inflight # <<>>
    /\ responses' = Append(responses, [ops |-> Head(inflight), transport |-> TRUE, failed |-> {}])
    /\ inflight' = Tail(inflight)
    /\ UNCHANGED <<size, concurrency, index, input, pos, rdr, chan, items,
                   sent, written, iresult, counter, stderr, evars, rvars>>

\* send() fails (transport or status): map_err(errors::raw), and_then is skipped.
BulkFail ==
    /\ iresult = "running" /\ inflight # <<>>
    /\ responses' = Append(responses, [ops |-> Head(inflight), transport |-> TRUE, failed |-> {}])
    /\ inflight' = Tail(inflight)
    /\ iresult' = "err"
    /\ UNCHANGED <<size, concurrency, index, input, pos, rdr, chan, items,
                   sent, written, counter, stderr, evars, rvars>>

ErrLines(batch, failed) ==
    LET F[i \in 0..Len(batch)] ==
          IF i = 0 THEN <<>>
          ELSE IF i \in failed
                 THEN Append(F[i - 1], [kind |-> "err", item |-> batch[i]])
                 ELSE F[i - 1]
    IN F[Len(batch)]

Succeeded(batch, failed) ==
    LET F[i \in 0..Len(batch)] ==
          IF i = 0 THEN <<>>
          ELSE IF i \in failed THEN F[i - 1] ELSE Append(F[i - 1], batch[i])
    IN F[Len(batch)]

\* The bulk response arrives: the and_then closure.
BulkResponse ==
    /\ iresult = "running" /\ inflight # <<>>
    /\ \E failed \in SUBSET (1..Len(Head(inflight))) :
         LET batch == Head(inflight)
             shown == Increment(counter, Processed(batch))
         IN /\ responses' = Append(responses, [ops |-> batch, transport |-> FALSE, failed |-> failed])
            /\ inflight' = Tail(inflight)
            /\ written' = written \o Succeeded(batch, failed)
            /\ counter' = FetchAdd(counter, Processed(batch))
            /\ stderr' = Append(stderr, [kind |-> "progress", n |-> shown])
                            \o (IF failed = {} THEN <<>> ELSE ErrLines(batch, failed))
            /\ iresult' = IF ResponseResult(failed) = "ok" THEN "running" ELSE "err"
    /\ UNCHANGED <<size, concurrency, index, input, pos, rdr, chan, items,
                   sent, evars, rvars>>

ImportNext ==
    \/ ReaderNext
    \/ ReaderSend
    \/ WorkerRecv
    \/ WorkerEnd
    \/ BulkFail
    \/ BulkResponse

ImportSpec == ImportInit /\ [][ImportNext]_vars

\* The same run under fair scheduling: the reader thread runs whenever it can
\* take a step (std::thread::spawn, import.rs:83), the runtime keeps polling
\* the worker future it blocks on (main.rs:27), and every bulk request sent
\* is eventually answered, with a response or with an error.
ImportFairSpec ==
    /\ ImportInit /\ [][ImportNext]_vars
    /\ WF_vars(ReaderNext \/ ReaderSend)
    /\ WF_vars(WorkerRecv \/ WorkerEnd)
    /\ WF_vars(BulkFail \/ BulkResponse)

(* ------------------------------------------------------------------ *)
(* Import: claims.                                                    *)
(* ------------------------------------------------------------------ *)
\* The number of operations carried by a sequence of requests or responses.
TotalOps(s) ==
    LET F[i \in 0..Len(s)] == IF i = 0 THEN 0 ELSE F[i - 1] + Len(s[i].ops)
    IN F[Len(s)]

Ceil(n, d) == (n + d - 1) \div d

\* Lines the worker stream has taken out of the channel.
Consumed == pos - Len(chan) - (IF rdr = "send" THEN 1 ELSE 0)

Refreshes == {i \in 1..Len(sent) : sent[i].kind = "refresh"}

\* C1: in every reachable state of an import run the number of batches
\* whose bulk request has been dispatched and not yet answered is at most
\* the concurrency C.
C1_InFlightAtMostConcurrency == Len(inflight) <= concurrency

\* A batch is in flight, the pool bound is reached, and a whole further
\* batch of lines is already waiting in the channel.
C1_Witness ==
    /\ Len(inflight) = concurrency
    /\ Len(chan) >= size
    /\ Len(responses) >= 1

\* C5 as stated: item failures in an accepted bulk response do not make
\* the run end in error.
C5_ItemFailuresTolerated ==
    \A i \in 1..Len(responses) :
        (~responses[i].transport /\ responses[i].failed # {}) => iresult # "err"

\* C5 amended: a bulk response reporting failed items gets each failed item
\* logged, and then ends the run in error: it is the last response the run
\* handles and no batch is dispatched after it.
C5_ItemFailuresLoggedThenFatal ==
    \A i \in 1..Len(responses) :
        LET r == responses[i] IN
        (~r.transport /\ r.failed # {}) =>
            /\ iresult = "err"
            /\ i = Len(responses)
            /\ Len(sent) = i
            /\ inflight = <<>>
            /\ \A j \in r.failed :
                  \E k \in 1..Len(stderr) : stderr[k] = [kind |-> "err", item |-> r.ops[j]]
            /\ Cardinality({k \in 1..Len(stderr) : stderr[k].kind = "err"})
                  = Cardinality(r.failed)

\* After one clean batch, the second batch's response reported a failed
\* item while lines were still waiting to be imported.
C5_Witness ==
    /\ Len(responses) = 2
    /\ ~responses[2].transport
    /\ responses[2].failed # {}
    /\ Consumed < Len(input)

\* C6: a run that reports success has issued exactly one refresh request,
\* after its last bulk request.
C6_OneRefreshAfterLastBatch ==
    iresult = "ok" =>
        /\ Cardinality(Refreshes) = 1
        /\ sent[Len(sent)].kind = "refresh"

\* A line that does not parse as JSON, or that has no _id.
Malformed(line) == ~line.valid \/ ~Get(line.val, "_id").some

\* C8: a line that does not parse or lacks _id appears in no batch and adds
\* nothing to the Counter: when a run over a stream holding such a line ends
\* successfully, no operation stems from that line and the Counter equals
\* the number of write operations.
C8_MalformedLinesAddNothing ==
    (iresult = "ok" /\ \E i \in 1..Len(input) : Malformed(input[i])) =>
        /\ \A i \in 1..Len(input) :
              Malformed(input[i]) =>
                 \A k \in 1..Len(sent) : \A j \in 1..Len(sent[k].ops) :
                    sent[k].ops[j].source # Envelope(i)["_source"]
        /\ counter = TotalOps(sent)

\* C9 as stated: lines carrying exactly _id, _index and _source are each
\* accepted, so n of them give ceil(n/S) bulk requests totalling n operations.
C9_ThreeFieldLinesAccepted ==
    (concurrency = 1 /\ \A i \in 1..Len(input) : input[i] = MkLine("notype", i)) =>
        /\ TotalOps(sent) + Len(items) = Consumed
        /\ iresult = "ok" =>
              /\ Len(sent) = Ceil(Len(input), size)
              /\ TotalOps(sent) = Len(input)

\* C9 amended: lines carrying _id, _index, _source and also a string _type
\* are each accepted as one operation; n of them, with batch size S and
\* concurrency 1, give exactly ceil(n/S) bulk requests totalling n
\* operations in a run that ends successfully.
C9_EnvelopeLinesAccepted ==
    (concurrency = 1 /\ \A i \in 1..Len(input) : input[i] = MkLine("full", i)) =>
        /\ TotalOps(sent) + Len(items) = Consumed
        /\ iresult = "ok" =>
              /\ Len(sent) = Ceil(Len(input), size)
              /\ TotalOps(sent) = Len(input)

\* Three envelope lines, batch size 2: the run ended successfully after a
\* full batch and a short one.
C9_Witness ==
    /\ iresult = "ok" /\ concurrency = 1 /\ size = 2
    /\ Len(input) = 3
    /\ \A i \in 1..Len(input) : input[i] = MkLine("full", i)
    /\ Len(sent) = 2

\* C10: the Counter equals the number of operations of the bulk requests
\* answered so far (each answer adds its batch's operation count).
C10_CounterCountsOperations ==
    counter = TotalOps(SelectSeq(responses, LAMBDA r : ~r.transport))

(* ------------------------------------------------------------------ *)
(* Export: query construction.                                        *)
(* ------------------------------------------------------------------ *)
Ok(x) == [ok |-> TRUE, v |-> x]
Err == [ok |-> FALSE]

\* The --query texts tried: two objects, a JSON scalar, and invalid JSON.
Filters ==
    { Text(JObj([f \in {} |-> JNull])),
      Text(JObj([f \in {"match_all"} |-> JObj([g \in {} |-> JNull])])),
      Text(JNum(42)),
      Garbage }

\* Mutant: the slice is attached whatever the worker count.
ConstructQueryAlwaysSliced(id, max) ==
    LET parsed == FromSlice(filter) IN
    IF ~parsed.some THEN Err
    ELSE
      LET query == [f \in {"query", "size", "sort"} |->
                      CASE f = "query" -> parsed.v
                        [] f = "size" -> JNum(esize)
                        [] f = "sort" -> JArr(<<JStr("_doc")>>)]
          slice == JObj([f \in {"id", "max"} |->
                           IF f = "id" THEN JNum(id) ELSE JNum(max)])
      IN Ok(JObj(query @@ ("slice" :> slice)))

\* Mutant: a filter that does not parse is replaced by match_all.
ConstructQueryDefaultsOnError(id, max) ==
    LET parsed == FromSlice(filter)
        used == IF parsed.some THEN parsed.v
                ELSE JObj([f \in {"match_all"} |-> JObj([g \in {} |-> JNull])])
        query == [f \in {"query", "size", "sort"} |->
                    CASE f = "query" -> used
                      [] f = "size" -> JNum(esize)
                      [] f = "sort" -> JArr(<<JStr("_doc")>>)]
        slice == JObj([f \in {"id", "max"} |->
                         IF f = "id" THEN JNum(id) ELSE JNum(max)])
    IN IF max > 1
         THEN Ok(JObj(query @@ ("slice" :> slice)))
         ELSE Ok(JObj(query))


\* construct_query(args, id, max): Err when the filter text is not JSON.
ConstructQuery(id, max) ==
    LET parsed == FromSlice(filter) IN
    IF ~parsed.some THEN Err
    ELSE
      LET query == [f \in {"query", "size", "sort"} |->
                      CASE f = "query" -> parsed.v
                        [] f = "size" -> JNum(esize)
                        [] f = "sort" -> JArr(<<JStr("_doc")>>)]
          slice == JObj([f \in {"id", "max"} |->
                           IF f = "id" THEN JNum(id) ELSE JNum(max)])
      IN IF max > 1
           THEN Ok(JObj(query @@ ("slice" :> slice)))
           ELSE Ok(JObj(query))

(* ------------------------------------------------------------------ *)
(* Export: what the cluster may answer.                               *)
(* ------------------------------------------------------------------ *)
Workers == 1..workers

Transient == {"sort", "_score"}

CursorText == <<"c1", "c2", "c3", "c4", "c5", "c6", "c7", "c8">>

\* The i-th hit of page k of worker w, carrying the transient fields `extra`.
\* Hits are JSON objects, as the search API returns them.
Hit(w, k, i, extra) ==
    JObj([f \in {"_index", "_type", "_id", "_source"} \cup extra |->
            CASE f = "_index" -> JStr("a")
              [] f = "_type" -> JStr("doc")
              [] f = "_id" -> JStr("d")
              [] f = "_source" -> JObj([g \in {"w", "k", "i"} |->
                                          IF g = "w" THEN JNum(w)
                                          ELSE IF g = "k" THEN JNum(k) ELSE JNum(i)])
              [] f = "sort" -> JArr(<<JNum(i)>>)
              [] f = "_score" -> JNull])

HitArrays(w, k, n) ==
    {[i \in 1..n |-> Hit(w, k, i, extra[i])] : extra \in [1..n -> SUBSET Transient]}

\* A response body: hits (if any) under /hits/hits, the cursor under _scroll_id.
ResponseValue(h, sid) ==
    JObj([f \in (IF h.some THEN {"hits"} ELSE {}) \cup
                 (IF sid.some THEN {"_scroll_id"} ELSE {}) |->
            IF f = "hits" THEN JObj([g \in {"hits"} |-> h.v]) ELSE sid.v])

\* Records printed so far, over all workers.
Emitted ==
    LET F[w \in 0..Len(stdout)] == IF w = 0 THEN 0 ELSE F[w - 1] + Len(stdout[w])
    IN F[Len(stdout)]

Min(a, b) == IF a < b THEN a ELSE b

\* The bodies worker w may receive for its k-th request: a page of up to
\* MaxHits hits (the cluster holds MaxDocs documents in all), with the
\* cursor present, absent or of the wrong type; or a body without a hits
\* array.
ResponseValues(w, k) ==
    {ResponseValue(Some(JArr(a)), sid) :
        a \in UNION {HitArrays(w, k, n) : n \in 0..Min(MaxHits, MaxDocs - Emitted)},
        sid \in {Some(JStr(CursorText[k])), Some(JNum(k)), None}}
    \cup {ResponseValue(None, Some(JStr(CursorText[k]))),
          ResponseValue(Some(JNum(0)), Some(JStr(CursorText[k])))}

(* ------------------------------------------------------------------ *)
(* Export: the run.                                                   *)
(* ------------------------------------------------------------------ *)
SearchRequest(query) == [kind |-> "search", body |-> query, scroll |-> "1m"]
\* Mutant: every continuation reuses the first cursor.
ScrollRequestFirstCursor(sid) == [kind |-> "scroll", scroll_id |-> CursorText[1], scroll |-> "1m"]

ScrollRequest(sid) == [kind |-> "scroll", scroll_id |-> sid, scroll |-> "1m"]

\* value.pointer_mut("/hits/hits")
PointerHits(value) ==
    LET outer == Get(value, "hits") IN
    IF outer.some THEN Get(outer.v, "hits") ELSE None

\* Mutant: only the sort key is removed.
StripSortOnly(hit) == JObj(Without(hit.m, "sort"))

\* container.remove("sort"); container.remove("_score")
Strip(hit) == JObj(Without(Without(hit.m, "sort"), "_score"))

\* Mutant: the hits of a page are printed last to first.
EmitPageReversed(page) == [i \in 1..Len(page) |-> Strip(page[Len(page) + 1 - i])]

\* for hit in hits { ...; println!("{}", hit) }: the lines the page prints.
EmitPage(page) == [i \in 1..Len(page) |-> Strip(page[i])]


\* Mutant: the Counter is advanced by the configured page size.
PageAmountSize(hits) == esize

\* The amount a page adds to the Counter.
PageAmount(hits) == Len(hits)

\* Mutant: the join resolves only when every task has finished.
JoinAllWaitsForAll(st) ==
    IF \E w \in DOMAIN st : st[w] = "open" THEN "running"
    ELSE IF \E w \in DOMAIN st : st[w] = "failed" THEN "err"
    ELSE "ok"

\* future::join_all over the workers' tasks: Err as soon as one task has
\* failed, Ok once all have completed.
JoinAll(st) ==
    IF \E w \in DOMAIN st : st[w] = "failed" THEN "err"
    ELSE IF \A w \in DOMAIN st : st[w] = "done" THEN "ok"
    ELSE "running"

ExportInit ==
    /\ workers \in 1..MaxWorkers
    /\ esize \in 1..MaxSize
    /\ filter \in Filters
    /\ tasks = <<>>
    /\ ws = <<>> /\ reqs = <<>> /\ stdout = <<>> /\ rawFields = {} /\ pages = <<>>
    /\ eresult = "building"
    /\ counter = 0
    /\ stderr = <<>>
    /\ size = 0 /\ concurrency = 0 /\ index = None /\ input = <<>> /\ pos = 0
    /\ rdr = "idle" /\ chan = <<>> /\ items = <<>> /\ inflight = <<>>
    /\ sent = <<>> /\ responses = <<>> /\ written = <<>> /\ iresult = "idle"
    /\ target = [valid |-> FALSE] /\ cluster = None

\* One turn of `for idx in 0..concurrency`: ft_err!(construct_query(..)).
BuildTask ==
    /\ eresult = "building" /\ Len(tasks) < workers
    /\ LET query == ConstructQuery(Len(tasks), workers) IN
       IF query.ok
         THEN tasks' = Append(tasks, query.v) /\ UNCHANGED eresult
         ELSE eresult' = "err" /\ UNCHANGED tasks
    /\ UNCHANGED <<workers, esize, filter, ws, reqs, stdout, rawFields, pages,
                   counter, stderr, ivars, rvars>>

\* run returns join_all(tasks); its first poll sends every task's search.
StartRun ==
    /\ eresult = "building" /\ Len(tasks) = workers
    /\ ws' = [w \in Workers |-> "open"]
    /\ reqs' = [w \in Workers |-> <<SearchRequest(tasks[w])>>]
    /\ stdout' = [w \in Workers |-> <<>>]
    /\ pages' = [w \in Workers |-> <<>>]
    /\ eresult' = "running"
    /\ UNCHANGED <<workers, esize, filter, tasks, rawFields, counter, stderr, ivars, rvars>>

\* send() or into_response fails for worker w: its task resolves Err.
ResponseError(w) ==
    /\ eresult = "running" /\ ws[w] = "open"
    /\ ws' = [ws EXCEPT ![w] = "failed"]
    /\ eresult' = JoinAll(ws')
    /\ UNCHANGED <<workers, esize, filter, tasks, reqs, stdout, rawFields, pages,
                   counter, stderr, ivars, rvars>>

\* A response body arrives for worker w: one turn of its loop_fn closure.
ReceivePage(w) ==
    /\ eresult = "running" /\ ws[w] = "open"
    /\ \E value \in ResponseValues(w, Len(reqs[w])) :
         LET hits == PointerHits(value) IN
         IF ~hits.some \/ hits.v.t # "arr"
           THEN \* expect("unable to locate hits") / expect("hits are of wrong type")
                /\ ws' = [ws EXCEPT ![w] = "panicked"]
                /\ eresult' = "panic"
                /\ UNCHANGED <<reqs, stdout, rawFields, pages, counter, stderr>>
           ELSE IF hits.v.a = <<>>
           THEN \* Loop::Break
                /\ ws' = [ws EXCEPT ![w] = "done"]
                /\ eresult' = JoinAll(ws')
                /\ pages' = [pages EXCEPT ![w] = Append(@, 0)]
                /\ UNCHANGED <<reqs, stdout, rawFields, counter, stderr>>
           ELSE LET page == hits.v.a
                    sid == Get(value, "_scroll_id")
                IN /\ stdout' = [stdout EXCEPT ![w] = @ \o EmitPage(page)]
                   /\ pages' = [pages EXCEPT ![w] = Append(@, Len(page))]
                   /\ rawFields' = rawFields \cup UNION {DOMAIN page[i].m : i \in 1..Len(page)}
                   /\ counter' = FetchAdd(counter, PageAmount(page))
                   /\ stderr' = Append(stderr, [kind |-> "progress",
                                                n |-> Increment(counter, PageAmount(page))])
                   /\ IF AsStr(sid).some
                        THEN /\ reqs' = [reqs EXCEPT ![w] = Append(@, ScrollRequest(AsStr(sid).v))]
                             /\ UNCHANGED <<ws, eresult>>
                        ELSE \* expect("unable to locate scroll_id") / ("... wrong type")
                             /\ ws' = [ws EXCEPT ![w] = "panicked"]
                             /\ eresult' = "panic"
                             /\ UNCHANGED reqs
    /\ UNCHANGED <<workers, esize, filter, tasks, ivars, rvars>>

ExportNext ==
    \/ BuildTask
    \/ StartRun
    \/ \E w \in Workers : ResponseError(w)
    \/ \E w \in Workers : ReceivePage(w)

ExportSpec == ExportInit /\ [][ExportNext]_vars

(* ------------------------------------------------------------------ *)
(* Export: claims.                                                    *)
(* ------------------------------------------------------------------ *)
\* C2: whatever the interleaving of the workers' page steps, the Counter
\* (started at 0) equals the number of hits the workers have written to
\* the output.
C2_CounterEqualsEmitted == counter = Emitted

\* Two workers have both emitted, one of them over two pages, and the run
\* has completed.
C2_Witness ==
    /\ eresult = "ok" /\ workers = 2
    /\ stdout[1] # <<>> /\ stdout[2] # <<>>
    /\ \E w \in Workers : Len(reqs[w]) >= 3

\* C3: no record written to the output has `sort` or `_score` at its top
\* level, whatever fields the raw hit carried.
C3_NoTransientFieldsEmitted ==
    \A w \in DOMAIN stdout : \A i \in 1..Len(stdout[w]) :
        /\ stdout[w][i].t = "obj"
        /\ DOMAIN stdout[w][i].m \cap Transient = {}

\* Raw hits carrying `sort` and `_score` have been received and emitted.
C3_Witness ==
    /\ Transient \subseteq rawFields
    /\ \E w \in DOMAIN stdout : Len(stdout[w]) >= 2

\* C4: a constructed query has a slice iff the worker count N is > 1; the
\* slice of the task built for worker id is {id, max = N}, so that once all
\* tasks are built the slice ids are exactly 0..N-1, each once, and id < max.
C4_SliceIffParallel ==
    /\ \A i \in 1..Len(tasks) :
          /\ ("slice" \in DOMAIN tasks[i].m) <=> (workers > 1)
          /\ workers > 1 =>
                /\ tasks[i].m["slice"].m["id"] = JNum(i - 1)
                /\ tasks[i].m["slice"].m["max"] = JNum(workers)
                /\ tasks[i].m["slice"].m["id"].n < tasks[i].m["slice"].m["max"].n
    /\ eresult \in {"running", "ok", "panic"} =>
          /\ Len(tasks) = workers
          /\ \A w \in Workers : reqs[w][1] = SearchRequest(tasks[w])
          /\ workers > 1 =>
                {tasks[i].m["slice"].m["id"].n : i \in 1..Len(tasks)} = 0..(workers - 1)

\* The queries of a run with several workers have all been built and sent.
C4_Witness ==
    /\ workers >= 2
    /\ eresult = "running"
    /\ \A w \in Workers : Len(reqs[w]) >= 1

\* C7: once any worker has failed (its request or response failed, or the
\* response lacked the hits array or the cursor), the run has ended in
\* failure, whether or not the other workers have finished; a run reports
\* success only when no worker failed.
C7_FailFast ==
    /\ (\E w \in DOMAIN ws : ws[w] \in {"failed", "panicked"}) =>
          eresult \in {"err", "panic"}
    /\ eresult = "ok" => \A w \in DOMAIN ws : ws[w] = "done"

\* A worker's request has failed while another worker is still waiting for
\* a page, and the run has already ended in error.
C7_Witness ==
    /\ eresult = "err"
    /\ \E w \in DOMAIN ws : ws[w] = "failed"
    /\ \E w \in DOMAIN ws : ws[w] = "open" /\ stdout[w] # <<>>

(* ------------------------------------------------------------------ *)
(* Target resolution (src/src/remote.rs).  Strings are sequences of    *)
(* characters, so that prefixes and trimming are computed.             *)
(* ------------------------------------------------------------------ *)
Http == <<"h", "t", "t", "p">>
Schemes == {Http, Http \o <<"s">>, Http \o <<"x">>, <<"f", "t", "p">>}

\* Schemes the url crate treats as special: they need a host and their
\* path is never empty.
SpecialSchemes == {Http, Http \o <<"s">>, <<"f", "t", "p">>}

Authority == <<"h", ":", "9">>

AllAlias == <<"_", "a", "l", "l">>

SeqsUpTo(S, n) == UNION {[1..k -> S] : k \in 0..n}

\* The path as written in the target: empty, or a slash and up to
\* MaxPath - 1 further characters.
Paths == {<<>>} \cup {<<"/">> \o p : p \in SeqsUpTo({"/", "i"}, MaxPath - 1)}

\* The target argument: a text Url::parse rejects outright, or a URI made
\* of a scheme, an authority (if any) and a path.
Targets ==
    {[valid |-> FALSE]} \cup
    [valid : {TRUE}, scheme : Schemes, host : {None, Some(Authority)}, path : Paths]

\* str::starts_with
StartsWith(str, prefix) ==
    Len(str) >= Len(prefix) /\ SubSeq(str, 1, Len(prefix)) = prefix

\* str::trim_start_matches(c)
RECURSIVE TrimStart(_, _)
TrimStart(str, c) ==
    IF str # <<>> /\ Head(str) = c THEN TrimStart(Tail(str), c) ELSE str

\* str::trim_end_matches(c)
RECURSIVE TrimEnd(_, _)
TrimEnd(str, c) ==
    IF str # <<>> /\ str[Len(str)] = c
      THEN TrimEnd(SubSeq(str, 1, Len(str) - 1), c)
      ELSE str

\* Url::parse: a special scheme needs a host, and gets the path "/" when
\* none is written.
UrlParse(t) ==
    IF ~t.valid THEN Err
    ELSE IF t.scheme \in SpecialSchemes /\ ~t.host.some THEN Err
    ELSE Ok([scheme |-> t.scheme, host |-> t.host,
             path |-> IF t.scheme \in SpecialSchemes /\ t.path = <<>>
                        THEN <<"/">> ELSE t.path])

\* Url::set_path("")
SetPathEmpty(url) ==
    [url EXCEPT !.path = IF url.scheme \in SpecialSchemes THEN <<"/">> ELSE <<>>]

\* Url::as_str
UrlAsStr(url) ==
    url.scheme \o <<":">>
      \o (IF url.host.some THEN <<"/", "/">> \o url.host.v ELSE <<>>)
      \o url.path

\* parse_cluster(target): Err, or Ok of the (host, index) pair.  The
\* `if index.is_empty() { "_all" } else { index };` statement computes a
\* value and drops it: `index` stays what trim_start_matches returned.
ParseCluster(t) ==
    LET parsed == UrlParse(t) IN
    IF ~parsed.ok THEN Err
    ELSE LET url == parsed.v IN
      IF ~url.host.some \/ ~StartsWith(url.scheme, Http) THEN Err
      ELSE
        LET idx == TrimStart(url.path, "/")
            dropped == IF idx = <<>> THEN AllAlias ELSE idx
        IN Ok([host |-> TrimEnd(UrlAsStr(SetPathEmpty(url)), "/"),
               index |-> idx])

\* The index of the returned pair is a String: the caller always gets one.
FixedIndex(pair) == Some(pair.index)

ResolveInit ==
    /\ target \in Targets
    /\ cluster = None
    /\ size = 0 /\ concurrency = 0 /\ index = None /\ input = <<>> /\ pos = 0
    /\ rdr = "idle" /\ chan = <<>> /\ items = <<>> /\ inflight = <<>>
    /\ sent = <<>> /\ responses = <<>> /\ written = <<>> /\ iresult = "idle"
    /\ counter = 0 /\ stderr = <<>>
    /\ workers = 0 /\ esize = 0 /\ filter = Garbage /\ tasks = <<>>
    /\ ws = <<>> /\ reqs = <<>> /\ stdout = <<>> /\ rawFields = {} /\ pages = <<>>
    /\ eresult = "idle"

\* let (host, index) = ft_err!(remote::parse_cluster(target));
ResolveTarget ==
    /\ ~cluster.some
    /\ cluster' = Some(ParseCluster(target))
    /\ UNCHANGED <<target, ivars, counter, stderr, evars>>

ResolveSpec == ResolveInit /\ [][ResolveTarget]_vars

(* ------------------------------------------------------------------ *)
(* Target resolution: claims.                                         *)
(* ------------------------------------------------------------------ *)
\* str::trim_matches(c): both ends.
Trim(str, c) == TrimEnd(TrimStart(str, c), c)

Resolved == cluster.some /\ cluster.v.ok

\* C11: for an accepted target the host returned is scheme "://" authority
\* with no path and no trailing slash, and the fixed index is the path with
\* its slashes trimmed when that is non-empty, and absent when it is empty.
C11_HostAndOptionalIndex ==
    Resolved =>
        /\ cluster.v.v.host = target.scheme \o <<":", "/", "/">> \o target.host.v
        /\ FixedIndex(cluster.v.v) =
              (IF Trim(target.path, "/") = <<>> THEN None
               ELSE Some(Trim(target.path, "/")))

\* C12: the resolver fails for every target without a host or whose scheme
\* is not exactly http or https, so every host returned has one of the two.
C12_OnlyHttpOrHttps ==
    cluster.some =>
        (cluster.v.ok =>
            /\ target.valid /\ target.host.some
            /\ target.scheme \in {Http, Http \o <<"s">>}
            /\ \/ StartsWith(cluster.v.v.host, Http \o <<":", "/", "/">>)
               \/ StartsWith(cluster.v.v.host, Http \o <<"s", ":", "/", "/">>))

\* C13: the index returned is never the empty string; a target that names
\* no index (empty path, or only slashes) gets the _all alias.
C13_IndexNeverEmpty ==
    Resolved =>
        /\ cluster.v.v.index # <<>>
        /\ TrimStart(target.path, "/") = <<>> => cluster.v.v.index = AllAlias


(* ------------------------------------------------------------------ *)
(* Counter: claims.                                                   *)
(* ------------------------------------------------------------------ *)
\* C14: under any interleaving of the workers' increments, every increment
\* adds exactly its amount (none is lost), the value it returns (printed in
\* the progress line) is the previous value plus its amount, i.e. the value
\* right after its own addition, and the Counter never decreases.
C14_IncrementAtomic ==
    [][ /\ counter' >= counter
        /\ counter' = counter + (Emitted' - Emitted)
        /\ (counter' # counter) <=> (stderr' # stderr)
        /\ (stderr' # stderr) =>
              /\ Len(stderr') = Len(stderr) + 1
              /\ stderr'[Len(stderr')].n = counter + (Emitted' - Emitted)
              /\ stderr'[Len(stderr')].n = counter' ]_vars

\* Both workers of a run have incremented the Counter, three times in all.
C14_Witness ==
    /\ workers = 2
    /\ Len(stderr) >= 3
    /\ \A w \in DOMAIN stdout : stdout[w] # <<>>

(* ------------------------------------------------------------------ *)
(* Import: claims on failure and batching.                            *)
(* ------------------------------------------------------------------ *)
\* The operations of a sequence of requests, in order.
FlattenOps(s) ==
    LET F[i \in 0..Len(s)] == IF i = 0 THEN <<>> ELSE F[i - 1] \o s[i].ops
    IN F[Len(s)]

\* The operations the transform makes of a sequence of lines, in order.
AcceptedOps(lines) ==
    LET F[i \in 0..Len(lines)] ==
          IF i = 0 THEN <<>>
          ELSE IF Transform(lines[i], index).some
                 THEN Append(F[i - 1], Transform(lines[i], index).v)
                 ELSE F[i - 1]
    IN F[Len(lines)]

\* C15: a bulk request that fails at transport or status level ends the
\* run in error: it is the last request sent (nothing is dispatched after
\* it and it is not sent again), and what the earlier batches wrote is
\* still written.
C15_TransportFailureFatal ==
    \A i \in 1..Len(responses) :
        responses[i].transport =>
            /\ iresult = "err"
            /\ i = Len(responses)
            /\ Len(sent) = i
            /\ inflight = <<>>
            /\ written = FlattenOps(SubSeq(sent, 1, i - 1))

\* The second bulk request failed after the first was written, with lines
\* still waiting to be imported.
C15_Witness ==
    /\ Len(responses) = 2
    /\ responses[2].transport
    /\ written # <<>>
    /\ Consumed < Len(input)

\* C18: the batches sent partition the transformed operations: no batch is
\* empty or longer than `size`, every batch but the last holds exactly
\* `size`, a shorter last batch is sent only at the end of the stream, and
\* the batches in dispatch order followed by the operations still buffered
\* are the operations of the lines consumed, in the order they were read.
C18_BatchesPartitionOperations ==
    /\ \A k \in 1..Len(sent) : Len(sent[k].ops) >= 1 /\ Len(sent[k].ops) <= size
    /\ \A k \in 1..(Len(sent) - 1) : Len(sent[k].ops) = size
    /\ (Len(sent) >= 1 /\ Len(sent[Len(sent)].ops) < size) =>
          (rdr = "done" /\ Consumed = Len(input) /\ items = <<>>)
    /\ Len(items) < size
    /\ FlattenOps(sent) \o items = AcceptedOps(SubSeq(input, 1, Consumed))

\* A run ended after sending a full batch and then a short last one.
C18_Witness ==
    /\ iresult = "ok" /\ size = 2
    /\ Len(sent) = 2 /\ Len(sent[2].ops) = 1


\* ---------------------------------------------------------------------
\* C16, C17, C19, C20: the scroll loop of one export worker
\* ---------------------------------------------------------------------

PageRecords(w, k) == [i \in 1..pages[w][k] |-> Hit(w, k, i, {})]

RECURSIVE RecordsUpTo(_, _)
RecordsUpTo(w, k) ==
    IF k = 0 THEN <<>> ELSE RecordsUpTo(w, k - 1) \o PageRecords(w, k)

\* C16: a worker that has not failed has sent one continuation request for
\* every page that carried at least one hit, each naming the cursor returned
\* with the page just before it; the first page without hits ends the worker
\* successfully in a step that prints nothing, sends nothing and leaves the
\* counter alone, and a finished worker never sends or prints again.
C16_ContinueUntilEmptyPage ==
    [][\A w \in DOMAIN ws' :
         /\ ws'[w] \in {"open", "done"} =>
              /\ Len(reqs'[w]) = 1 + Cardinality({k \in 1..Len(pages'[w]) : pages'[w][k] >= 1})
              /\ \A j \in 2..Len(reqs'[w]) :
                   /\ reqs'[w][j].kind = "scroll"
                   /\ reqs'[w][j].scroll_id = CursorText[j - 1]
                   /\ pages'[w][j - 1] >= 1
              /\ ws'[w] = "open" => Len(pages'[w]) = Len(reqs'[w]) - 1
              /\ ws'[w] = "done" =>
                   /\ Len(pages'[w]) = Len(reqs'[w])
                   /\ pages'[w][Len(pages'[w])] = 0
         /\ (w \in DOMAIN ws /\ ws[w] = "open" /\ ws'[w] = "done") =>
              /\ reqs' = reqs /\ stdout' = stdout /\ counter' = counter
         /\ (w \in DOMAIN ws /\ ws[w] = "done") =>
              /\ ws'[w] = "done" /\ reqs'[w] = reqs[w]
              /\ stdout'[w] = stdout[w] /\ pages'[w] = pages[w]
         /\ (\A v \in DOMAIN ws' : ws'[v] = "done") => eresult' = "ok"
      ]_vars

C16_Witness ==
    \E w \in DOMAIN ws :
        /\ ws[w] = "done" /\ Len(reqs[w]) = 3
        /\ reqs[w][3].scroll_id = CursorText[2]
        /\ pages[w][3] = 0

\* C17: the lines a worker has printed are the hits of the pages it has
\* received, each hit once, page after page and within a page in the order
\* of the page; the request for the page after page k exists only when page
\* k has been received, hence printed.
C17_HitsOnceInPageOrder ==
    \A w \in DOMAIN stdout :
        /\ stdout[w] = RecordsUpTo(w, Len(pages[w]))
        /\ Len(reqs[w]) <= Len(pages[w]) + 1

C17_Witness ==
    \E w \in DOMAIN stdout :
        /\ Len(pages[w]) >= 2 /\ pages[w][1] = 2 /\ pages[w][2] >= 1
        /\ Len(stdout[w]) = 3 /\ Len(reqs[w]) = 3

\* C19 (as stated): a filter that is not a JSON object builds no task, so
\* the run fails before any request is sent.
C19_NonObjectFilterRejected ==
    (~filter.valid \/ filter.val.t # "obj") =>
        /\ tasks = <<>> /\ reqs = <<>>
        /\ eresult \in {"building", "err"}

\* C19 (amended): a filter that is not valid JSON builds no task, so the run
\* fails before any request is sent; a filter that is valid JSON, object or
\* not, is placed unchanged in the query field of every task built.
C19_InvalidJsonFilterRejected ==
    /\ ~filter.valid =>
          /\ tasks = <<>> /\ reqs = <<>>
          /\ eresult \in {"building", "err"}
    /\ filter.valid =>
          \A i \in 1..Len(tasks) : tasks[i].m["query"] = filter.val

C19_Witness == ~filter.valid /\ eresult = "err" /\ workers = 2 /\ reqs = <<>>

\* C20: a worker that has finished its scroll has asked the cluster to
\* release the scroll context.
C20_ScrollClosedOnDone ==
    \A w \in DOMAIN ws :
        ws[w] = "done" => \E j \in 1..Len(reqs[w]) : reqs[w][j].kind = "clear_scroll"


\* ---------------------------------------------------------------------
\* C21, C22: the order and the termination of the import's bulk requests
\* ---------------------------------------------------------------------

\* C21: whatever `concurrency` is, at most one bulk request awaits its
\* response; every request but the last sent has been answered without
\* transport or item error before the next one was sent, and requests are
\* sent and answered in the order their batches were cut from the stream.
C21_OneRequestAtATime ==
    /\ Len(inflight) <= 1
    /\ Len(sent) = Len(responses) + Len(inflight)
    /\ \A k \in 1..Len(responses) : responses[k].ops = sent[k].ops
    /\ \A k \in 1..(Len(sent) - 1) :
          ~responses[k].transport /\ responses[k].failed = {}
    /\ inflight # <<>> => inflight[1] = sent[Len(sent)].ops
    /\ LET ops == FlattenOps(sent)
       IN ops = SubSeq(AcceptedOps(input), 1, Len(ops))

\* With concurrency 2, the second request is in flight after the first was
\* answered, while a further line already waits in the channel.
C21_Witness ==
    /\ concurrency = 2
    /\ Len(sent) = 2 /\ Len(responses) = 1 /\ Len(inflight) = 1
    /\ chan # <<>>


NoFailure ==
    \A k \in 1..Len(responses) : ~responses[k].transport /\ responses[k].failed = {}

ImportComplete ==
    /\ iresult = "ok"
    /\ pos = Len(input) /\ rdr = "done"
    /\ chan = <<>> /\ items = <<>> /\ inflight = <<>>
    /\ Len(responses) = Len(sent)
    /\ FlattenOps(sent) = AcceptedOps(input)
    /\ written = AcceptedOps(input)

\* C22: under fair scheduling of the reader thread and of the dispatch loop,
\* a run in which no bulk request ever fails ends successfully, and a run
\* that has ended successfully has read and consumed every line and has sent
\* (and had written) every transformed operation once, in order, the short
\* last batch included.
C22_EventuallyComplete ==
    /\ ([]NoFailure) => <>ImportComplete
    /\ [](iresult = "ok" => ImportComplete)

\* A run over three lines with batch size 2 has ended successfully: a full
\* batch, then the short last batch, both written.
C22_Witness ==
    /\ iresult = "ok"
    /\ size = 2 /\ concurrency = 1 /\ Len(input) = 3
    /\ Len(sent) = 2 /\ Len(sent[2].ops) = 1
    /\ written = AcceptedOps(input)

====
